---------------------------- MODULE Spec2Model ----------------------------
(***************************************************************************)
(* Model of terraform-provider-zesty: the HTTP client (NewClient,          *)
(* DoRequest and the account operations), the Account -> presentation      *)
(* model conversion (ToModel) and the account resource's                   *)
(* Create/Read/Update/Delete/ImportState handlers.                         *)
(*                                                                         *)
(* Three specifications share the variables:                               *)
(*   SpecConv    ToModel applied to every Account of a bounded set, under  *)
(*               every iteration order of the product map;                 *)
(*   SpecClient  NewClient followed by DoRequest calls on caller-built     *)
(*               requests;                                                 *)
(*   Spec        the life cycle of one managed account resource against an *)
(*               arbitrary server.                                         *)
(***************************************************************************)
EXTENDS Integers, Sequences, FiniteSets, TLC

VARIABLES
    client,     \* *client.Client: HostURL, Token, HTTPClient.Timeout (Nil before NewClient)
    op,         \* the operation performed last
    sent,       \* the requests handed to HTTPClient.Do by the last operation, in order
    reply,      \* what HTTPClient.Do produced for the last operation (Nil if it was not called)
    ret,        \* the values returned by the last client call
    state,      \* the persisted state of the managed resource (Nil: no state)
    resp,       \* the handler's response when it returned: State and Diagnostics
    input,      \* the arguments of the last operation
    output      \* the result of the last conversion (model, diags)

vars == <<client, op, sent, reply, ret, state, resp, input, output>>

-----------------------------------------------------------------------------
(* Bounds *)

\* largest number of products in one Account of the conversion specification
MaxProducts == 2
\* number of distinct instants time.Now() can return
MaxTime == 2
\* largest number of diagnostics the framework reports for an undecodable plan/state
MaxDecodeDiags == 2
\* largest number of values a caller has put under the API-key header before DoRequest
MaxPreset == 2

-----------------------------------------------------------------------------
(* Go values *)

\* a nil pointer / nil slice / nil error
Nil == [nil |-> TRUE]

\* values of type any, as encoding/json decodes them
GoString(s) == [kind |-> "string", s |-> s]
GoFloat(n) == [kind |-> "float64", n |-> n]
GoMap(m) == [kind |-> "map", m |-> m]
GoNil == [kind |-> "nil"]

\* fmt's %T
TypeName(v) ==
    CASE v.kind = "string" -> "string"
      [] v.kind = "float64" -> "float64"
      [] v.kind = "map" -> "map[string]interface {}"
      [] v.kind = "nil" -> "<nil>"

\* the pieces of a formatted text
Lit(s) == [lit |-> s]
Num(n) == [num |-> n]
Raw(b) == [raw |-> b]

\* the bytes of the strings that get compared
Bytes(s) ==
    CASE s = "CM" -> <<67, 77>>
      [] s = "Kompass" -> <<75, 111, 109, 112, 97, 115, 115>>
      [] s = "ZestyDisk" -> <<90, 101, 115, 116, 121, 68, 105, 115, 107>>
      [] s = "cm" -> <<99, 109>>
      [] s = "a" -> <<97>>
      [] s = "b" -> <<98>>
      [] s = "metadata" -> <<109, 101, 116, 97, 100, 97, 116, 97>>

RECURSIVE BytesLess(_, _)
BytesLess(x, y) ==
    IF y = <<>> THEN FALSE
    ELSE IF x = <<>> THEN TRUE
    ELSE IF Head(x) # Head(y) THEN Head(x) < Head(y)
    ELSE BytesLess(Tail(x), Tail(y))

\* Go's < on strings
StringLess(s, t) == BytesLess(Bytes(s), Bytes(t))

RECURSIVE InsertSorted(_, _)
InsertSorted(sorted, s) ==
    IF sorted = <<>> THEN <<s>>
    ELSE IF StringLess(s, Head(sorted)) THEN <<s>> \o sorted
    ELSE <<Head(sorted)>> \o InsertSorted(Tail(sorted), s)

SortStringsFromAppending(sorted, rest) == sorted \o rest

RECURSIVE SortStringsFrom(_, _)
SortStringsFrom(sorted, rest) ==
    IF rest = <<>> THEN sorted
    ELSE SortStringsFrom(InsertSorted(sorted, Head(rest)), Tail(rest))

NoSort(names) == names

\* sort.Strings
SortStrings(names) == SortStringsFrom(<<>>, names)

\* the sequences that enumerate the set S once each
Orders(S) ==
    {o \in [1..Cardinality(S) -> S] : \A i, j \in 1..Cardinality(S) : i # j => o[i] # o[j]}

Range(f) == {f[i] : i \in DOMAIN f}

-----------------------------------------------------------------------------
(* Framework values *)

\* types.String: null, or a known value
StringNull == [known |-> FALSE]
StringValue(s) == [known |-> TRUE, value |-> s]
ValueString(v) == IF v.known THEN v.value ELSE ""
BoolValue(b) == [known |-> TRUE, value |-> b]
ValueBool(v) == IF v.known THEN v.value ELSE FALSE

NewErrorDiagnostic(summary, detail) ==
    [Severity |-> "Error", Summary |-> summary, Detail |-> detail]

HasError(diags) == \E i \in DOMAIN diags : diags[i].Severity = "Error"

-----------------------------------------------------------------------------
(* models.Account and the conversion to the presentation model *)

ProductNames == {"CM", "Kompass", "ZestyDisk", "cm"}

\* map[models.Product]models.ProductDetails with at most n keys
ProductMaps(names, n) ==
    UNION {[S -> [Active : BOOLEAN]] : S \in {T \in SUBSET names : Cardinality(T) <= n}}

Absent == [absent |-> TRUE]

\* map[string]any holding the chosen entries; a choice of Absent leaves the key out
AdditionalDataOf(roleARN, externalID, values) ==
    LET all == [k \in {"roleARN", "externalID", "values"} |->
                    CASE k = "roleARN" -> roleARN
                      [] k = "externalID" -> externalID
                      [] k = "values" -> values]
    IN  [k \in {k \in DOMAIN all : all[k] # Absent} |-> all[k]]

AssertStringLoose(v) == [value |-> IF v.kind = "string" THEN v.s ELSE "", ok |-> v.kind # "nil"]

\* the type assertion v.(string) in its two-result form
AssertString(v) ==
    IF v.kind = "string" THEN [value |-> v.s, ok |-> TRUE] ELSE [value |-> "", ok |-> FALSE]

\* the type assertion v.(map[string]any) in its two-result form
AssertMap(v) ==
    IF v.kind = "map" THEN [value |-> v.m, ok |-> TRUE] ELSE [value |-> <<>>, ok |-> FALSE]

parseValuesKeepingMetadata(in) ==
    IF "values" \notin DOMAIN in THEN <<>>
    ELSE LET asMap == AssertMap(in["values"])
         IN  IF ~asMap.ok THEN <<>>
             ELSE [k \in {k \in DOMAIN asMap.value : asMap.value[k].kind # "nil"} |->
                        asMap.value[k]]

parseValuesWrappingWrongType(in) ==
    IF "values" \notin DOMAIN in THEN <<>>
    ELSE LET asMap == AssertMap(in["values"])
         IN  IF ~asMap.ok THEN [k \in {"a"} |-> in["values"]]
             ELSE [k \in {k \in DOMAIN asMap.value :
                            asMap.value[k].kind # "nil" /\ k # "metadata"} |-> asMap.value[k]]

\* parseValues: the entries of input["values"] whose value is not nil and whose
\* key is not "metadata"; the empty map when there is no such map
parseValues(in) ==
    IF "values" \notin DOMAIN in THEN <<>>
    ELSE LET asMap == AssertMap(in["values"])
         IN  IF ~asMap.ok THEN <<>>
             ELSE [k \in {k \in DOMAIN asMap.value :
                            asMap.value[k].kind # "nil" /\ k # "metadata"} |-> asMap.value[k]]

\* the text yaml.v3 writes for a scalar
YamlScalar(v) ==
    CASE v.kind = "string" -> Lit(v.s)
      [] v.kind = "float64" -> Num(v.n)
      [] v.kind = "nil" -> Lit("null")
      [] OTHER -> Lit("{}")

\* yaml.Marshal of a map[string]any: one "key: value" line per key, keys in
\* ascending order, "{}" for the empty map.  It returns an error only for
\* values no JSON document decodes to, hence never here.
YamlMarshal(m) ==
    IF DOMAIN m = {} THEN [bytes |-> <<Lit("{}")>>, err |-> Nil]
    ELSE LET keys == SortStringsFrom(<<>>, CHOOSE o \in Orders(DOMAIN m) : TRUE)
         IN  [bytes |-> [i \in 1..Len(keys) |-> [key |-> keys[i], val |-> YamlScalar(m[keys[i]])]],
              err |-> Nil]

ProductEntriesAllActive(account, names, blob) ==
    [i \in 1..Len(names) |->
        [Name |-> StringValue(names[i]), Active |-> BoolValue(TRUE), Values |-> StringValue(blob)]]

ProductEntriesBlobOnFirst(account, names, blob) ==
    [i \in 1..Len(names) |->
        [Name |-> StringValue(names[i]),
         Active |-> BoolValue(account.Products[names[i]].Active),
         Values |-> StringValue(IF i = 1 THEN blob ELSE <<Lit("{}")>>)]]

\* the product entries appended in the order of the sorted names
ProductEntries(account, names, blob) ==
    [i \in 1..Len(names) |->
        [Name |-> StringValue(names[i]),
         Active |-> BoolValue(account.Products[names[i]].Active),
         Values |-> StringValue(blob)]]

\* ToModel; order is the order in which "for name := range account.Products"
\* visits the keys.  The result is the pair (model, diagnostics).
ToModel(account, order) ==
    LET ad == account.AdditionalData
        fail(summary, detail) ==
            [model |-> Nil, diags |-> <<NewErrorDiagnostic(summary, detail)>>]
    IN
    IF "roleARN" \notin DOMAIN ad
    THEN fail("Missing role ARN for account",
              <<Lit("account.AdditionalData.roleARN is nil or empty")>>)
    ELSE IF ~AssertString(ad["roleARN"]).ok
    THEN fail("Erroneous role ARN for account",
              <<Lit("Expected string for role ARN but got "), Lit(TypeName(ad["roleARN"]))>>)
    ELSE IF "externalID" \notin DOMAIN ad
    THEN fail("Missing external ID for account",
              <<Lit("account.AdditionalData.externalID is nil or empty")>>)
    ELSE IF ~AssertString(ad["externalID"]).ok
    THEN fail("Erroneous external ID for account",
              <<Lit("Expected string for external ID but got "), Lit(TypeName(ad["roleARN"]))>>)
    ELSE LET values == YamlMarshal(parseValues(ad))
         IN  IF values.err # Nil
             THEN fail("Erroneous values from provider", <<Lit("Got error: "), values.err>>)
             ELSE [model |->
                      [ID |-> StringValue(account.AccountID),
                       CloudProvider |-> StringValue(account.CloudProvider),
                       AWSRegion |-> StringNull,
                       RoleARN |-> StringValue(AssertString(ad["roleARN"]).value),
                       ExternalID |-> StringValue(AssertString(ad["externalID"]).value),
                       Products |-> ProductEntries(account, SortStrings(order), values.bytes)],
                   diags |-> <<>>]

\* the inline checks of AccountsDataSource.Read on one account: the
\* diagnostic of the first failing check, or Nil
CheckAccount(account) ==
    LET ad == account.AdditionalData
        fail(summary) == NewErrorDiagnostic(summary, <<Raw(account.AccountID)>>)
    IN  IF "roleARN" \notin DOMAIN ad THEN fail("Missing role ARN for account")
        ELSE IF ~AssertString(ad["roleARN"]).ok THEN fail("Erroneous role ARN for account")
        ELSE IF "externalID" \notin DOMAIN ad THEN fail("Missing external ID for account")
        ELSE IF ~AssertString(ad["externalID"]).ok THEN fail("Erroneous external ID for account")
        ELSE Nil

AccountStateUnsorted(account, order) ==
    [ID |-> StringValue(account.AccountID),
     CloudProvider |-> StringValue(account.CloudProvider),
     AWSRegion |-> StringNull,
     RoleARN |-> StringValue(AssertString(account.AdditionalData["roleARN"]).value),
     ExternalID |-> StringValue(AssertString(account.AdditionalData["externalID"]).value),
     Products |-> [i \in 1..Len(order) |->
                      [Name |-> StringValue(order[i]),
                       Active |-> BoolValue(account.Products[order[i]].Active),
                       Values |-> StringNull]]]

\* the accountModel built for an account that passed the checks; order is the
\* order in which the range over account.Products visits the keys.  AWSRegion
\* and the products' Values are left at their zero value; a nil
\* []productModel is the empty sequence.
AccountState(account, order) ==
    LET names == SortStrings(order)
    IN  [ID |-> StringValue(account.AccountID),
         CloudProvider |-> StringValue(account.CloudProvider),
         AWSRegion |-> StringNull,
         RoleARN |-> StringValue(AssertString(account.AdditionalData["roleARN"]).value),
         ExternalID |-> StringValue(AssertString(account.AdditionalData["externalID"]).value),
         Products |-> [i \in 1..Len(names) |->
                          [Name |-> StringValue(names[i]),
                           Active |-> BoolValue(account.Products[names[i]].Active),
                           Values |-> StringNull]]]

-----------------------------------------------------------------------------
(* JSON documents and encoding/json *)

JString(s) == [j |-> "string", s |-> s]
JNumber(n) == [j |-> "number", n |-> n]
JBool(b) == [j |-> "bool", b |-> b]
JObject(fields) == [j |-> "object", fields |-> fields]
JArray(items) == [j |-> "array", items |-> items]
JNull == [j |-> "null"]
\* bytes that are not a JSON document (the empty body among them)
NotJSON(s) == [j |-> "invalid", s |-> s]

\* json.Unmarshal into a value of type any (numbers become float64)
RECURSIVE DecodeAny(_)
DecodeAny(v) ==
    CASE v.j = "string" -> GoString(v.s)
      [] v.j = "number" -> GoFloat(v.n)
      [] v.j = "null" -> GoNil
      [] v.j = "object" -> GoMap([k \in DOMAIN v.fields |-> DecodeAny(v.fields[k])])
      [] OTHER -> GoNil

UnmarshalError(what) == [text |-> <<Lit("json: "), Lit(what)>>]

\* the zero models.Account
ZeroAccount == [AccountID |-> "", CloudProvider |-> "", Products |-> <<>>, AdditionalData |-> <<>>]

\* whether the JSON value of a field decodes into the field's Go type
FitsString(v) == v.j \in {"string", "null"}
FitsProducts(v) ==
    \/ v.j = "null"
    \/ /\ v.j = "object"
       /\ \A n \in DOMAIN v.fields :
            \/ v.fields[n].j = "null"
            \/ /\ v.fields[n].j = "object"
               /\ "active" \in DOMAIN v.fields[n].fields =>
                        v.fields[n].fields["active"].j \in {"bool", "null"}
FitsMap(v) == v.j \in {"object", "null"}

\* json.Unmarshal(body, &account) for account := models.Account{}.  The struct
\* has no json tags, so the keys are the field names; ProductDetails has the
\* tag "active".
UnmarshalAccount(doc) ==
    IF doc.j = "invalid" THEN [account |-> ZeroAccount, err |-> UnmarshalError("invalid character")]
    ELSE IF doc.j = "null" THEN [account |-> ZeroAccount, err |-> Nil]
    ELSE IF doc.j # "object"
    THEN [account |-> ZeroAccount, err |-> UnmarshalError("cannot unmarshal into Go value of type models.Account")]
    ELSE LET f == doc.fields
             has(k) == k \in DOMAIN f
             fits == /\ has("AccountID") => FitsString(f["AccountID"])
                     /\ has("CloudProvider") => FitsString(f["CloudProvider"])
                     /\ has("Products") => FitsProducts(f["Products"])
                     /\ has("AdditionalData") => FitsMap(f["AdditionalData"])
             str(k) == IF has(k) /\ f[k].j = "string" THEN f[k].s ELSE ""
             details(d) ==
                 [Active |-> /\ d.j = "object"
                             /\ "active" \in DOMAIN d.fields
                             /\ d.fields["active"].j = "bool"
                             /\ d.fields["active"].b]
         IN  IF ~fits
             THEN [account |-> ZeroAccount, err |-> UnmarshalError("cannot unmarshal into Go struct field")]
             ELSE [account |->
                      [AccountID |-> str("AccountID"),
                       CloudProvider |-> str("CloudProvider"),
                       Products |->
                          IF has("Products") /\ f["Products"].j = "object"
                          THEN [n \in DOMAIN f["Products"].fields |-> details(f["Products"].fields[n])]
                          ELSE <<>>,
                       AdditionalData |->
                          IF has("AdditionalData") /\ f["AdditionalData"].j = "object"
                          THEN DecodeAny(f["AdditionalData"]).m
                          ELSE <<>>],
                   err |-> Nil]

\* json.Unmarshal(body, &accounts) for accounts := []models.Account{}
UnmarshalAccounts(doc) ==
    IF doc.j = "invalid" THEN [accounts |-> <<>>, err |-> UnmarshalError("invalid character")]
    ELSE IF doc.j = "null" THEN [accounts |-> <<>>, err |-> Nil]
    ELSE IF doc.j # "array"
    THEN [accounts |-> <<>>, err |-> UnmarshalError("cannot unmarshal into Go value of type []models.Account")]
    ELSE IF \E i \in DOMAIN doc.items : UnmarshalAccount(doc.items[i]).err # Nil
    THEN [accounts |-> <<>>, err |-> UnmarshalError("cannot unmarshal into Go struct field")]
    ELSE [accounts |-> [i \in DOMAIN doc.items |-> UnmarshalAccount(doc.items[i]).account], err |-> Nil]

\* json.Marshal(payload) for a models.Payload: awsRegion is omitted when nil, a
\* nil product map is written as null
MarshalPayload(payload) ==
    JObject([accountID |-> JString(payload.AccountID),
             cloudProvider |-> JString(payload.CloudProvider),
             roleARN |-> JString(payload.RoleARN),
             externalID |-> JString(payload.ExternalID),
             products |->
                IF payload.Products = Nil THEN JNull
                ELSE JObject([n \in DOMAIN payload.Products |->
                                JObject([active |-> JBool(payload.Products[n].Active)])])])

-----------------------------------------------------------------------------
(* The HTTP client *)

DefaultHostURL == "http://localhost:9000"

\* a *string that is not nil
Ptr(s) == [deref |-> s]

NewClientDefaultOnly(host, token) ==
    [c |-> [HostURL |-> DefaultHostURL, HTTPClient |-> [Timeout |-> 60], Token |-> token],
     err |-> Nil]

\* NewClient; the timeout is in seconds
NewClient(host, token) ==
    [c |-> [HostURL |-> IF host # Nil THEN host.deref ELSE DefaultHostURL,
            HTTPClient |-> [Timeout |-> 60],
            Token |-> token],
     err |-> Nil]

\* textproto.CanonicalMIMEHeaderKey
CanonicalMIMEHeaderKey(k) ==
    CASE k = "x-api-key" -> "X-Api-Key"
      [] k = "content-type" -> "Content-Type"
      [] OTHER -> k

\* http.Header.Add: the value is appended to those of the canonicalised key
HeaderAdd(h, key, value) ==
    LET k == CanonicalMIMEHeaderKey(key)
    IN  (k :> ((IF k \in DOMAIN h THEN h[k] ELSE <<>>) \o <<value>>)) @@ h

HeaderSetAppending(h, key, value) == HeaderAdd(h, key, value)

\* http.Header.Set: the key is canonicalised and its values are replaced
HeaderSet(h, key, value) == (CanonicalMIMEHeaderKey(key) :> <<value>>) @@ h

\* url.Parse rejects a URL that holds an ASCII control character
HasCTLByte(s) == s \in {"12\n34"}

\* url.Parse rejects a URL without a scheme whose first path segment holds a
\* colon, such as a host given as address:port
ColonInFirstSegment(s) == s \in {"127.0.0.1:9000"}

\* http.NewRequest: the URL is the text made of the given pieces
NewRequest(method, url, body) ==
    IF \E i \in DOMAIN url : HasCTLByte(url[i])
    THEN [req |-> Nil,
          err |-> [text |-> <<Lit("parse "), Lit("net/url: invalid control character in URL")>>]]
    ELSE IF ColonInFirstSegment(url[1])
    THEN [req |-> Nil,
          err |-> [text |-> <<Lit("parse "), Lit("first path segment in URL cannot contain colon")>>]]
    ELSE [req |-> [Method |-> method, URL |-> url, Header |-> <<>>, Body |-> body], err |-> Nil]

\* r.URL.Path of a request as the server receives it: the text after the
\* host, up to the '?'
URLPath(url) ==
    CASE url[2] = "/account?accountID=" -> "/account"
      [] OTHER -> url[2]

\* the first value of a raw query "key=<raw>": '&' starts the next parameter
QueryValue(raw) ==
    CASE raw = "12&34" -> "12"
      [] OTHER -> raw

\* r.URL.Query().Get(key) of a request as the server receives it
URLQueryGet(url, key) ==
    IF Len(url) = 3 /\ url[2] = "/account?accountID=" /\ key = "accountID"
    THEN QueryValue(url[3])
    ELSE ""

\* what c.HTTPClient.Do and the read of the body can produce
TransportFailure == [kind |-> "transport", err |-> [text |-> <<Lit("dial tcp: connection refused")>>]]
ReadFailure(status) == [kind |-> "readfail", status |-> status, err |-> [text |-> <<Lit("unexpected EOF")>>]]
Response(status, body) == [kind |-> "response", status |-> status, body |-> body]

IsFailureStatusOnly200(status) == status # 200

\* res.StatusCode != http.StatusOK && res.StatusCode != http.StatusCreated
IsFailureStatus(status) == status # 200 /\ status # 201

\* fmt.Errorf("status: %d, body: %s", res.StatusCode, body)
StatusError(status, body) ==
    [text |-> <<Lit("status: "), Num(status), Lit(", body: "), Raw(body)>>]

\* c.DoRequest(req) when HTTPClient.Do and the body read produce out: the
\* request as sent, and the returned (body, err)
DoRequest(c, req, out) ==
    LET withKey == [req EXCEPT !.Header = HeaderSet(@, "x-api-key", c.Token)]
    IN  [sent |-> <<withKey>>,
         reply |-> out,
         body |-> IF out.kind = "response" /\ ~IsFailureStatus(out.status) THEN out.body ELSE Nil,
         err |-> IF out.kind \in {"transport", "readfail"} THEN out.err
                 ELSE IF IsFailureStatus(out.status) THEN StatusError(out.status, out.body)
                 ELSE Nil]

\* the result of an operation that returned before calling DoRequest
NotSent(err) == [sent |-> <<>>, reply |-> Nil, body |-> Nil, err |-> err]

\* c.Validate()
Validate(c, out) ==
    LET r == NewRequest("GET", <<c.HostURL, "/validate">>, Nil)
        d == IF r.err # Nil THEN NotSent(r.err) ELSE DoRequest(c, r.req, out)
    IN  [sent |-> d.sent, reply |-> d.reply, err |-> d.err]

SendPayloadKeepingAccount(c, method, payload, out) ==
    LET r == NewRequest(method, <<c.HostURL, "/account">>, MarshalPayload(payload))
        d == IF r.err # Nil THEN NotSent(r.err) ELSE DoRequest(c, r.req, out)
        u == IF d.err # Nil THEN [account |-> ZeroAccount, err |-> d.err] ELSE UnmarshalAccount(d.body)
    IN  [sent |-> d.sent, reply |-> d.reply, account |-> u.account, err |-> u.err]

\* the shared body of CreateAccount and UpdateAccount
SendPayload(c, method, payload, out) ==
    LET r == NewRequest(method, <<c.HostURL, "/account">>, MarshalPayload(payload))
        d == IF r.err # Nil THEN NotSent(r.err) ELSE DoRequest(c, r.req, out)
        u == IF d.err # Nil THEN [account |-> ZeroAccount, err |-> d.err] ELSE UnmarshalAccount(d.body)
    IN  [sent |-> d.sent, reply |-> d.reply,
         account |-> IF u.err # Nil THEN Nil ELSE u.account,
         err |-> u.err]

\* c.CreateAccount(payload)
CreateAccount(c, payload, out) == SendPayload(c, "POST", payload, out)

\* c.UpdateAccount(payload)
UpdateAccount(c, payload, out) == SendPayload(c, "PUT", payload, out)

\* c.DeleteAccount(payload)
DeleteAccount(c, payload, out) ==
    LET r == NewRequest("DELETE", <<c.HostURL, "/account">>, MarshalPayload(payload))
        d == IF r.err # Nil THEN NotSent(r.err) ELSE DoRequest(c, r.req, out)
    IN  [sent |-> d.sent, reply |-> d.reply, err |-> d.err]

\* c.GetAccount(accountID)
GetAccount(c, accountID, out) ==
    LET r == NewRequest("GET", <<c.HostURL, "/account?accountID=", accountID>>, Nil)
        d == IF r.err # Nil THEN NotSent(r.err) ELSE DoRequest(c, r.req, out)
        u == IF d.err # Nil THEN [account |-> ZeroAccount, err |-> d.err] ELSE UnmarshalAccount(d.body)
    IN  [sent |-> d.sent, reply |-> d.reply,
         account |-> IF u.err # Nil THEN Nil ELSE u.account,
         err |-> u.err]

\* c.GetAccounts()
GetAccounts(c, out) ==
    LET r == NewRequest("GET", <<c.HostURL, "/accounts">>, Nil)
        d == IF r.err # Nil THEN NotSent(r.err) ELSE DoRequest(c, r.req, out)
        u == IF d.err # Nil THEN [accounts |-> <<>>, err |-> d.err] ELSE UnmarshalAccounts(d.body)
    IN  [sent |-> d.sent, reply |-> d.reply,
         accounts |-> IF u.err # Nil THEN Nil ELSE [list |-> u.accounts],
         err |-> u.err]

-----------------------------------------------------------------------------
(* SpecConv: ToModel over a bounded set of Accounts *)

RoleARNChoices == {Absent, GoNil, GoFloat(123), GoString("arn:aws")}
ExternalIDChoices == {Absent, GoNil, GoFloat(42), GoString("ext")}
ValuesChoices ==
    {Absent, GoString("oops"), GoNil, GoMap(<<>>),
     GoMap([metadata |-> GoString("x"), a |-> GoNil, b |-> GoString("ok")]),
     GoMap([b |-> GoFloat(7), a |-> GoString("ok")]),
     GoMap([metadata |-> GoString("x")])}

ConvAccounts ==
    {[AccountID |-> "acc", CloudProvider |-> "aws", Products |-> p,
      AdditionalData |-> AdditionalDataOf(r, e, v)] :
        p \in ProductMaps(ProductNames, MaxProducts),
        r \in RoleARNChoices, e \in ExternalIDChoices, v \in ValuesChoices}

InitConv ==
    /\ client = Nil
    /\ op = "init"
    /\ sent = <<>>
    /\ reply = Nil
    /\ ret = Nil
    /\ state = Nil
    /\ resp = Nil
    /\ \E a \in ConvAccounts : \E o \in Orders(DOMAIN a.Products) :
            input = [account |-> a, order |-> o]
    /\ output = Nil

\* model, diags := ToModel(account)
ConvToModel ==
    /\ op = "init"
    /\ input # Nil
    /\ op' = "ToModel"
    /\ output' = ToModel(input.account, input.order)
    /\ UNCHANGED <<client, sent, reply, ret, state, resp, input>>

\* clean := parseValues(account.AdditionalData)
ConvParseValues ==
    /\ op = "init"
    /\ input # Nil
    /\ op' = "parseValues"
    /\ output' = [clean |-> parseValues(input.account.AdditionalData)]
    /\ UNCHANGED <<client, sent, reply, ret, state, resp, input>>

\* a second ToModel(account) on the same Account, whose range over the product
\* map may visit the keys in another order
ConvToModelAgain ==
    /\ op = "ToModel"
    /\ op' = "ToModelAgain"
    /\ \E o \in Orders(DOMAIN input.account.Products) :
            ret' = [order |-> o, result |-> ToModel(input.account, o)]
    /\ UNCHANGED <<client, sent, reply, state, resp, input, output>>

\* the data source's inline path on the Account that ToModel has converted:
\* the checks, then the accountModel; the range over the product map may
\* visit the keys in another order
ConvInline ==
    /\ op = "ToModel"
    /\ op' = "Inline"
    /\ \E o \in Orders(DOMAIN input.account.Products) :
            ret' = [order |-> o,
                    diag |-> CheckAccount(input.account),
                    model |-> IF CheckAccount(input.account) = Nil
                              THEN AccountState(input.account, o)
                              ELSE Nil]
    /\ UNCHANGED <<client, sent, reply, state, resp, input, output>>

NextConv ==
    \/ ConvToModel
    \/ ConvParseValues
    \/ ConvToModelAgain
    \/ ConvInline

SpecConv == InitConv /\ [][NextConv]_vars

\* the string entry of additional-data under key k, if there is one
HasStringEntry(account, k) ==
    /\ k \in DOMAIN account.AdditionalData
    /\ account.AdditionalData[k].kind = "string"

\* the summary the ordered checks of the conversion select for an Account
\* that does not convert
ExpectedSummary(account) ==
    LET ad == account.AdditionalData
    IN  IF "roleARN" \notin DOMAIN ad THEN "Missing role ARN for account"
        ELSE IF ad["roleARN"].kind # "string" THEN "Erroneous role ARN for account"
        ELSE IF "externalID" \notin DOMAIN ad THEN "Missing external ID for account"
        ELSE "Erroneous external ID for account"

\* C2: ToModel returns a model iff roleARN and externalID are both present as
\* strings; otherwise it returns no model and exactly one error diagnostic, the
\* one of the first failing check (roleARN absent, roleARN not a string,
\* externalID absent, externalID not a string).
C2_ModelIffBothStrings ==
    op = "ToModel" =>
        LET a == input.account
            good == HasStringEntry(a, "roleARN") /\ HasStringEntry(a, "externalID")
        IN  /\ (output.model # Nil) <=> good
            /\ good => output.diags = <<>>
            /\ ~good =>
                /\ Len(output.diags) = 1
                /\ output.diags[1].Severity = "Error"
                /\ output.diags[1].Summary = ExpectedSummary(a)

C2_Witness ==
    /\ op = "ToModel"
    /\ "roleARN" \in DOMAIN input.account.AdditionalData
    /\ input.account.AdditionalData["roleARN"].kind = "nil"
    /\ "externalID" \notin DOMAIN input.account.AdditionalData
    /\ output.model = Nil
    /\ output.diags[1].Summary = "Erroneous role ARN for account"

\* C3: for every Account that converts, the product list has one entry per key
\* of the product mapping (same length, no duplicate names), each with that
\* product's active flag, in ascending byte order of the names, whatever the
\* iteration order of the mapping.
C3_ProductsSortedOnePerKey ==
    (op = "ToModel" /\ output.model # Nil) =>
        LET ps == output.model.Products
            m == input.account.Products
        IN  /\ Len(ps) = Cardinality(DOMAIN m)
            /\ {ps[i].Name.value : i \in DOMAIN ps} = DOMAIN m
            /\ \A i, j \in DOMAIN ps : i # j => ps[i].Name # ps[j].Name
            /\ \A i \in DOMAIN ps :
                    /\ ps[i].Name.known /\ ps[i].Active.known
                    /\ ps[i].Active.value = m[ps[i].Name.value].Active
            /\ \A i, j \in DOMAIN ps :
                    i < j => StringLess(ps[i].Name.value, ps[j].Name.value)

C3_Witness ==
    /\ op = "ToModel"
    /\ output.model # Nil
    /\ Len(input.order) >= 2
    /\ StringLess(input.order[2], input.order[1])
    /\ Len(output.model.Products) = Len(input.order)
    /\ output.model.Products[1].Name.value = input.order[2]

\* the entry of additional-data under "values" when it is a map, else the empty map
ValuesMapOf(account) ==
    IF /\ "values" \in DOMAIN account.AdditionalData
       /\ account.AdditionalData["values"].kind = "map"
    THEN account.AdditionalData["values"].m
    ELSE <<>>

\* the keys of the values sub-map that the conversion keeps
KeptKeys(account) ==
    {k \in DOMAIN ValuesMapOf(account) : ValuesMapOf(account)[k] # GoNil /\ k # "metadata"}

\* C11: the map the conversion serializes holds exactly the entries of the
\* Account's values sub-map whose value is not nil and whose key is not
\* "metadata", keys and values unchanged; {metadata: x, a: nil, b: ok} is
\* reduced to exactly {b: ok}.
C11_FilteredValues ==
    op = "parseValues" =>
        /\ DOMAIN output.clean = KeptKeys(input.account)
        /\ \A k \in DOMAIN output.clean : output.clean[k] = ValuesMapOf(input.account)[k]
        /\ ValuesMapOf(input.account) =
                [metadata |-> GoString("x"), a |-> GoNil, b |-> GoString("ok")]
            => output.clean = [b |-> GoString("ok")]

C11_Witness ==
    /\ op = "parseValues"
    /\ ValuesMapOf(input.account) = [metadata |-> GoString("x"), a |-> GoNil, b |-> GoString("ok")]
    /\ output.clean = [b |-> GoString("ok")]

\* the Account has no values entry, or one that is not a map
ValuesMissingOrMistyped(account) ==
    \/ "values" \notin DOMAIN account.AdditionalData
    \/ account.AdditionalData["values"].kind # "map"

\* C12: with roleARN and externalID present as strings, an Account without a
\* values entry, or with one that is not a map, converts without any
\* diagnostic, and its values are those of the empty map.
C12_ValuesFailSoft ==
    (/\ op = "ToModel"
     /\ HasStringEntry(input.account, "roleARN")
     /\ HasStringEntry(input.account, "externalID")
     /\ ValuesMissingOrMistyped(input.account)) =>
        /\ output.model # Nil
        /\ output.diags = <<>>
        /\ \A i \in DOMAIN output.model.Products :
                output.model.Products[i].Values = StringValue(<<Lit("{}")>>)

C12_Witness ==
    /\ op = "ToModel"
    /\ "values" \in DOMAIN input.account.AdditionalData
    /\ input.account.AdditionalData["values"] = GoString("oops")
    /\ output.model # Nil
    /\ Len(output.model.Products) = 2
    /\ output.model.Products[2].Values = StringValue(<<Lit("{}")>>)

\* b is the serialization of the kept entries of the Account's values: "{}"
\* for none, else one line per kept key, in ascending order of the keys, with
\* the text of the key's value
IsBlobOfKept(b, account) ==
    IF KeptKeys(account) = {} THEN b = <<Lit("{}")>>
    ELSE /\ Len(b) = Cardinality(KeptKeys(account))
         /\ {b[j].key : j \in DOMAIN b} = KeptKeys(account)
         /\ \A i, j \in DOMAIN b : i < j => StringLess(b[i].key, b[j].key)
         /\ \A j \in DOMAIN b : b[j].val = YamlScalar(ValuesMapOf(account)[b[j].key])

\* C13: in every model the conversion produces, all product entries carry the
\* same values blob, the serialization of the Account's filtered values map,
\* whatever the product's name and active flag.
C13_OneBlobForAllProducts ==
    (op = "ToModel" /\ output.model # Nil) =>
        \A i \in DOMAIN output.model.Products :
            /\ output.model.Products[i].Values.known
            /\ IsBlobOfKept(output.model.Products[i].Values.value, input.account)
            /\ output.model.Products[i].Values = output.model.Products[1].Values

C13_Witness ==
    /\ op = "ToModel"
    /\ output.model # Nil
    /\ Len(output.model.Products) = 2
    /\ output.model.Products[1].Active # output.model.Products[2].Active
    /\ Len(output.model.Products[2].Values.value) = 2
    /\ output.model.Products[2].Values.value[1].key = "a"

\* C14: two runs of ToModel on the same Account give the same outcome (the same
\* diagnostic, or equal models: scalar fields, product order and values blob),
\* whatever order each run visits the product map in, and the Account is the
\* same after the runs as before.
C14_Deterministic ==
    /\ [](op = "ToModelAgain" => ret.result = output)
    /\ [][input'.account = input.account]_vars

C14_Witness ==
    /\ op = "ToModelAgain"
    /\ ret.order # input.order
    /\ output.model # Nil
    /\ Len(output.model.Products) = 2
    /\ ret.result.model.Products = output.model.Products

\* the names and active flags of a model's product entries, in their order
NamesAndFlags(model) ==
    [i \in DOMAIN model.Products |->
        [Name |-> model.Products[i].Name, Active |-> model.Products[i].Active]]

C28_DetailNamesOwnType ==
    (op = "ToModel" /\ output.diags # <<>>) =>
        /\ output.diags[1].Summary = "Erroneous role ARN for account" =>
                output.diags[1].Detail =
                    <<Lit("Expected string for role ARN but got "),
                      Lit(TypeName(input.account.AdditionalData["roleARN"]))>>
        /\ output.diags[1].Summary = "Erroneous external ID for account" =>
                output.diags[1].Detail =
                    <<Lit("Expected string for external ID but got "),
                      Lit(TypeName(input.account.AdditionalData["externalID"]))>>

-----------------------------------------------------------------------------
(* SpecClient: NewClient, then calls of the client's operations *)

Hosts == {"http://customhost:1234", ""}
Tokens == {"goodtoken", "testtoken2"}
AccountIDs == {"123456789012", "12\n34"}

\* the ids GetAccount is called with; the last one holds a query separator
RequestedIDs == AccountIDs \cup {"12&34"}

\* the headers of a request whose caller has put n values under the API-key header
RECURSIVE PresetHeader(_)
PresetHeader(n) ==
    IF n = 0 THEN HeaderAdd(<<>>, "content-type", "application/json")
    ELSE HeaderAdd(PresetHeader(n - 1), "x-api-key", "stale")

CallerRequests ==
    {[Method |-> m, URL |-> <<"http://customhost:1234", "/test">>, Header |-> PresetHeader(n),
      Body |-> b] :
        m \in {"GET"}, n \in 0..MaxPreset, b \in {Nil}}

Statuses == {200, 201, 204, 403}

PlainBodies == {NotJSON(""), JObject([error |-> JString("forbidden")])}

\* the JSON document of an Account with the given fields
AccountDoc(id, products, roleARN, externalID) ==
    JObject([AccountID |-> id,
             CloudProvider |-> JString("AWS"),
             Products |-> JObject([n \in DOMAIN products |->
                                      JObject([active |-> JBool(products[n].Active)])]),
             AdditionalData |->
                JObject([k \in {k \in {"roleARN", "externalID"} :
                                  (IF k = "roleARN" THEN roleARN ELSE externalID) # Absent} |->
                            IF k = "roleARN" THEN roleARN ELSE externalID])])

ClientDocs ==
    {AccountDoc(id, p, r, JString("ext")) :
        id \in {JString("123456789012"), JNumber(12)},
        p \in {[n \in {"Kompass"} |-> [Active |-> TRUE]]},
        r \in {Absent, JString("arn:aws")}}

Outcomes(bodies) ==
    {TransportFailure, ReadFailure(200)} \cup {Response(st, b) : st \in Statuses, b \in bodies}

ClientPayloads ==
    {[AccountID |-> "123456789012", CloudProvider |-> "AWS", AWSRegion |-> Nil,
      RoleARN |-> "arn:aws", ExternalID |-> "ext", Products |-> p] :
        p \in {Nil, [n \in {"Kompass"} |-> [Active |-> TRUE]]}}

InitClient ==
    /\ client = Nil
    /\ op = "init"
    /\ sent = <<>>
    /\ reply = Nil
    /\ ret = Nil
    /\ state = Nil
    /\ resp = Nil
    /\ input = Nil
    /\ output = Nil

\* c, err := client.NewClient(host, token)
CallNewClient ==
    /\ client = Nil
    /\ \E host \in {Nil} \cup {Ptr(h) : h \in Hosts}, token \in Tokens :
        LET r == NewClient(host, token)
        IN  /\ client' = r.c
            /\ ret' = [err |-> r.err]
            /\ input' = [host |-> host, token |-> token]
    /\ op' = "NewClient"
    /\ sent' = <<>>
    /\ reply' = Nil
    /\ UNCHANGED <<state, resp, output>>

\* the effect of a client call with result r on the variables of the call
Called(name, in, r, result) ==
    /\ op' = name
    /\ input' = in
    /\ sent' = r.sent
    /\ reply' = r.reply
    /\ ret' = result
    /\ UNCHANGED <<client, state, resp, output>>

\* body, err := c.DoRequest(req)
CallDoRequest ==
    /\ client # Nil
    /\ \E req \in CallerRequests, out \in Outcomes(PlainBodies) :
        LET r == DoRequest(client, req, out)
        IN  Called("DoRequest", [req |-> req], r, [body |-> r.body, err |-> r.err])

\* err := c.Validate()
CallValidate ==
    /\ client # Nil
    /\ \E out \in Outcomes(PlainBodies) :
        LET r == Validate(client, out)
        IN  Called("Validate", Nil, r, [err |-> r.err])

\* account, err := c.CreateAccount(payload)
CallCreateAccount ==
    /\ client # Nil
    /\ \E payload \in ClientPayloads, out \in Outcomes(PlainBodies \cup ClientDocs) :
        LET r == CreateAccount(client, payload, out)
        IN  Called("CreateAccount", [payload |-> payload], r, [account |-> r.account, err |-> r.err])

\* account, err := c.UpdateAccount(payload)
CallUpdateAccount ==
    /\ client # Nil
    /\ \E payload \in ClientPayloads, out \in Outcomes(PlainBodies \cup ClientDocs) :
        LET r == UpdateAccount(client, payload, out)
        IN  Called("UpdateAccount", [payload |-> payload], r, [account |-> r.account, err |-> r.err])

\* err := c.DeleteAccount(payload)
CallDeleteAccount ==
    /\ client # Nil
    /\ \E payload \in ClientPayloads, out \in Outcomes(PlainBodies) :
        LET r == DeleteAccount(client, payload, out)
        IN  Called("DeleteAccount", [payload |-> payload], r, [err |-> r.err])

\* account, err := c.GetAccount(accountID)
CallGetAccount ==
    /\ client # Nil
    /\ \E id \in RequestedIDs, out \in Outcomes(PlainBodies \cup ClientDocs) :
        LET r == GetAccount(client, id, out)
        IN  Called("GetAccount", [accountID |-> id], r, [account |-> r.account, err |-> r.err])

\* accounts, err := c.GetAccounts()
CallGetAccounts ==
    /\ client # Nil
    /\ \E out \in Outcomes(PlainBodies \cup {JArray(<<>>)} \cup {JArray(<<d>>) : d \in ClientDocs}) :
        LET r == GetAccounts(client, out)
        IN  Called("GetAccounts", Nil, r, [accounts |-> r.accounts, err |-> r.err])

NextClient ==
    \/ CallNewClient
    \/ CallDoRequest
    \/ CallValidate
    \/ CallCreateAccount
    \/ CallUpdateAccount
    \/ CallDeleteAccount
    \/ CallGetAccount
    \/ CallGetAccounts

SpecClient == InitClient /\ [][NextClient]_vars

\* C1: DoRequest classifies a completed response by its status alone: 200 or
\* 201 give the raw body and no error; any other status gives a nil body and
\* the error "status: <code>, body: <raw body>"; a transport failure gives a
\* nil body and an error.  A body and an error are never returned together.
C1_DoRequestClassifies ==
    op = "DoRequest" =>
        /\ (reply.kind = "response" /\ reply.status \in {200, 201}) =>
                ret.body = reply.body /\ ret.body # Nil /\ ret.err = Nil
        /\ (reply.kind = "response" /\ reply.status \notin {200, 201}) =>
                /\ ret.body = Nil
                /\ ret.err # Nil
                /\ ret.err.text =
                      <<Lit("status: "), Num(reply.status), Lit(", body: "), Raw(reply.body)>>
        /\ reply.kind = "transport" => ret.body = Nil /\ ret.err # Nil
        /\ ~(ret.body # Nil /\ ret.err # Nil)

C1_Witness ==
    /\ op = "DoRequest"
    /\ reply.kind = "response"
    /\ reply.status = 403
    /\ reply.body = JObject([error |-> JString("forbidden")])
    /\ ret.body = Nil
    /\ ret.err.text[2] = Num(403)

\* the operations that go through DoRequest
ClientOps ==
    {"DoRequest", "Validate", "CreateAccount", "UpdateAccount", "DeleteAccount",
     "GetAccount", "GetAccounts"}

\* every request of the last operation carries exactly the client's token
\* under the API-key header
ApiKeyIsToken ==
    op \in ClientOps =>
        \A i \in DOMAIN sent :
            /\ "X-Api-Key" \in DOMAIN sent[i].Header
            /\ sent[i].Header["X-Api-Key"] = <<client.Token>>

\* C9: every request sent through the client carries the API-key header with
\* the client's token as its only value, whatever the caller had set for that
\* header, and no operation on a constructed client changes its host or token.
C9_ApiKeyHeaderAndClientFrozen ==
    /\ []ApiKeyIsToken
    /\ [][client # Nil =>
            /\ client'.HostURL = client.HostURL
            /\ client'.Token = client.Token]_vars

C9_Witness ==
    /\ op = "DoRequest"
    /\ "X-Api-Key" \in DOMAIN input.req.Header
    /\ Len(input.req.Header["X-Api-Key"]) = 2
    /\ input.req.Header["X-Api-Key"][1] # client.Token
    /\ Len(sent) = 1
    /\ sent[1].Header["X-Api-Key"] = <<client.Token>>

\* C10: NewClient never fails; with a nil host the client's host is the
\* package's default URL, with a given host it is that host verbatim; the
\* client's token is the given token and its request timeout is 60 seconds.
C10_NewClient ==
    op = "NewClient" =>
        /\ ret.err = Nil
        /\ client # Nil
        /\ input.host = Nil => client.HostURL = "http://localhost:9000"
        /\ input.host # Nil => client.HostURL = input.host.deref
        /\ client.Token = input.token
        /\ client.HTTPClient.Timeout = 60

C10_Witness ==
    /\ op = "NewClient"
    /\ input.host = Nil
    /\ client.HostURL = "http://localhost:9000"
    /\ client.Token = "goodtoken"

\* the request of the last operation was sent and failed: no response, an
\* unreadable body, or a status other than 200 and 201
RequestFailed ==
    /\ reply # Nil
    /\ \/ reply.kind # "response"
       \/ reply.status \notin {200, 201}

\* the error DoRequest returns for the failed request
RequestError ==
    IF reply.kind = "response"
    THEN [text |-> <<Lit("status: "), Num(reply.status), Lit(", body: "), Raw(reply.body)>>]
    ELSE reply.err

\* the result (not the error) the last operation returned
ResultOf == IF op = "GetAccounts" THEN ret.accounts ELSE ret.account

\* C18: CreateAccount, UpdateAccount, GetAccount and GetAccounts return either
\* a non-nil result and no error, or a nil result and an error; when the
\* request fails they return DoRequest's error unchanged and decode nothing;
\* DeleteAccount returns exactly the error of its request.
C18_FailClosed ==
    /\ op \in {"CreateAccount", "UpdateAccount", "GetAccount", "GetAccounts"} =>
        /\ (ResultOf # Nil) # (ret.err # Nil)
        /\ RequestFailed => ret.err = RequestError /\ ResultOf = Nil
    /\ op = "DeleteAccount" =>
        /\ RequestFailed => ret.err = RequestError
        /\ (reply # Nil /\ ~RequestFailed) => ret.err = Nil

C18_Witness ==
    /\ op = "UpdateAccount"
    /\ reply # Nil
    /\ reply.kind = "response"
    /\ reply.status = 403
    /\ reply.body \in ClientDocs
    /\ ret.account = Nil
    /\ ret.err.text[2] = Num(403)

\* the method, path and body the operation named o sends
RouteOf(o) ==
    CASE o = "CreateAccount" -> [Method |-> "POST", Path |-> "/account", HasBody |-> TRUE]
      [] o = "UpdateAccount" -> [Method |-> "PUT", Path |-> "/account", HasBody |-> TRUE]
      [] o = "DeleteAccount" -> [Method |-> "DELETE", Path |-> "/account", HasBody |-> TRUE]
      [] o = "GetAccount" -> [Method |-> "GET", Path |-> "/account", HasBody |-> FALSE]
      [] o = "GetAccounts" -> [Method |-> "GET", Path |-> "/accounts", HasBody |-> FALSE]
      [] o = "Validate" -> [Method |-> "GET", Path |-> "/validate", HasBody |-> FALSE]

\* C19: every request of an account operation goes to the operation's fixed
\* method and path under the client's host: Create POST /account, Update PUT
\* /account, Delete DELETE /account, each with the JSON of the payload as its
\* body; Read GET /account with the query parameter accountID equal to the
\* requested id and no body; List GET /accounts; Validate GET /validate.
C19_FixedMethodAndPath ==
    op \in {"CreateAccount", "UpdateAccount", "DeleteAccount", "GetAccount", "GetAccounts",
            "Validate"} =>
        \A i \in DOMAIN sent :
            /\ sent[i].Method = RouteOf(op).Method
            /\ sent[i].URL[1] = client.HostURL
            /\ URLPath(sent[i].URL) = RouteOf(op).Path
            /\ IF RouteOf(op).HasBody
               THEN sent[i].Body = MarshalPayload(input.payload)
               ELSE sent[i].Body = Nil
            /\ op = "GetAccount" => URLQueryGet(sent[i].URL, "accountID") = input.accountID

-----------------------------------------------------------------------------
(* The account resource: Create, Read, Update, Delete, ImportState *)

\* time.Now().Format(time.RFC850) at the instant t
FormatRFC850(t) ==
    CASE t = 1 -> "Monday, 02-Jan-06 15:04:05 UTC"
      [] t = 2 -> "Monday, 02-Jan-06 15:04:06 UTC"
      [] t = 3 -> "Monday, 02-Jan-06 15:04:07 UTC"
      [] OTHER -> "Monday, 02-Jan-06 15:04:08 UTC"

PayloadProductsFirstWins(products) ==
    [n \in {ValueString(products[i].Name) : i \in DOMAIN products} |->
        LET first == CHOOSE i \in DOMAIN products :
                        /\ ValueString(products[i].Name) = n
                        /\ \A j \in DOMAIN products :
                                ValueString(products[j].Name) = n => i <= j
        IN  [Active |-> ValueBool(products[first].Active)]]

\* the product map built by "for _, product := range plan.Account.Products":
\* a later entry overwrites an earlier one of the same name
PayloadProducts(products) ==
    [n \in {ValueString(products[i].Name) : i \in DOMAIN products} |->
        LET last == CHOOSE i \in DOMAIN products :
                        /\ ValueString(products[i].Name) = n
                        /\ \A j \in DOMAIN products :
                                ValueString(products[j].Name) = n => j <= i
        IN  [Active |-> ValueBool(products[last].Active)]]

\* the models.Payload of Create and Update
PlanPayload(account) ==
    [AccountID |-> ValueString(account.ID),
     CloudProvider |-> ValueString(account.CloudProvider),
     AWSRegion |-> Nil,
     RoleARN |-> ValueString(account.RoleARN),
     ExternalID |-> ValueString(account.ExternalID),
     Products |-> PayloadProducts(account.Products)]

\* the models.Payload of Delete
DeletePayload(account) ==
    [AccountID |-> ValueString(account.ID),
     CloudProvider |-> ValueString(account.CloudProvider),
     AWSRegion |-> Nil,
     RoleARN |-> ValueString(account.RoleARN),
     ExternalID |-> ValueString(account.ExternalID),
     Products |-> Nil]

\* the diagnostics the framework appends when req.Plan.Get / req.State.Get
\* cannot decode into the handler's struct
DecodeDiagnostics(n) ==
    [i \in 1..n |-> NewErrorDiagnostic("Value Conversion Error", <<Lit("mismatch")>>)]

\* a handler that returned before calling the client
Undecoded(prior, n) ==
    [sent |-> <<>>, reply |-> Nil, State |-> prior, Diagnostics |-> DecodeDiagnostics(n)]

\* the iteration orders of the product map of the Account that out decodes to
IterOrders(out) ==
    IF out.kind = "response" /\ ~IsFailureStatus(out.status)
        /\ UnmarshalAccount(out.body).err = Nil
    THEN Orders(DOMAIN UnmarshalAccount(out.body).account.Products)
    ELSE {<<>>}

CreateKeepingPlanRoleARN(c, plan, out, order, t) ==
    LET r == CreateAccount(c, PlanPayload(plan.Account), out)
        m == ToModel(r.account, order)
    IN  IF r.err # Nil
        THEN [sent |-> r.sent, reply |-> r.reply, State |-> Nil,
              Diagnostics |-> <<NewErrorDiagnostic("Error creating account",
                    <<Lit("Could not create account, unexpected error: ")>> \o r.err.text)>>]
        ELSE IF m.diags # <<>>
        THEN [sent |-> r.sent, reply |-> r.reply, State |-> Nil, Diagnostics |-> m.diags]
        ELSE [sent |-> r.sent, reply |-> r.reply,
              State |-> [ID |-> StringValue(r.account.AccountID),
                         Account |-> [m.model EXCEPT !.RoleARN = plan.Account.RoleARN],
                         LastUpdated |-> StringValue(FormatRFC850(t))],
              Diagnostics |-> <<>>]

\* AccountResource.Create with a decoded plan: the requests sent, and the
\* response's State and Diagnostics when the handler returns (the response
\* starts with a null state)
Create(c, plan, out, order, t) ==
    LET r == CreateAccount(c, PlanPayload(plan.Account), out)
        m == ToModel(r.account, order)
    IN  IF r.err # Nil
        THEN [sent |-> r.sent, reply |-> r.reply, State |-> Nil,
              Diagnostics |-> <<NewErrorDiagnostic("Error creating account",
                    <<Lit("Could not create account, unexpected error: ")>> \o r.err.text)>>]
        ELSE IF m.diags # <<>>
        THEN [sent |-> r.sent, reply |-> r.reply, State |-> Nil, Diagnostics |-> m.diags]
        ELSE [sent |-> r.sent, reply |-> r.reply,
              State |-> [ID |-> StringValue(r.account.AccountID),
                         Account |-> m.model,
                         LastUpdated |-> StringValue(FormatRFC850(t))],
              Diagnostics |-> <<>>]

ReadDroppingState(c, prior, out, order) ==
    LET id == ValueString(prior.ID)
        r == GetAccount(c, id, out)
        m == ToModel(r.account, order)
    IN  IF r.err # Nil
        THEN [sent |-> r.sent, reply |-> r.reply, State |-> Nil,
              Diagnostics |-> <<NewErrorDiagnostic("Error Reading Zesty Account",
                    <<Lit("Could not read account ID "), Lit(id), Lit(": ")>> \o r.err.text)>>]
        ELSE IF m.diags # <<>>
        THEN [sent |-> r.sent, reply |-> r.reply, State |-> prior, Diagnostics |-> m.diags]
        ELSE [sent |-> r.sent, reply |-> r.reply,
              State |-> [prior EXCEPT !.Account = m.model],
              Diagnostics |-> <<>>]

ReadClearingLastUpdated(c, prior, out, order) ==
    LET id == ValueString(prior.ID)
        r == GetAccount(c, id, out)
        m == ToModel(r.account, order)
    IN  IF r.err # Nil
        THEN [sent |-> r.sent, reply |-> r.reply, State |-> prior,
              Diagnostics |-> <<NewErrorDiagnostic("Error Reading Zesty Account",
                    <<Lit("Could not read account ID "), Lit(id), Lit(": ")>> \o r.err.text)>>]
        ELSE IF m.diags # <<>>
        THEN [sent |-> r.sent, reply |-> r.reply, State |-> prior, Diagnostics |-> m.diags]
        ELSE [sent |-> r.sent, reply |-> r.reply,
              State |-> [prior EXCEPT !.Account = m.model, !.LastUpdated = StringNull],
              Diagnostics |-> <<>>]

\* AccountResource.Read with a decoded prior state (the response starts with
\* the prior state)
Read(c, prior, out, order) ==
    LET id == ValueString(prior.ID)
        r == GetAccount(c, id, out)
        m == ToModel(r.account, order)
    IN  IF r.err # Nil
        THEN [sent |-> r.sent, reply |-> r.reply, State |-> prior,
              Diagnostics |-> <<NewErrorDiagnostic("Error Reading Zesty Account",
                    <<Lit("Could not read account ID "), Lit(id), Lit(": ")>> \o r.err.text)>>]
        ELSE IF m.diags # <<>>
        THEN [sent |-> r.sent, reply |-> r.reply, State |-> prior, Diagnostics |-> m.diags]
        ELSE [sent |-> r.sent, reply |-> r.reply,
              State |-> [prior EXCEPT !.Account = m.model],
              Diagnostics |-> <<>>]

UpdateStampingOnFailure(c, prior, plan, out, order, t) ==
    LET r == UpdateAccount(c, PlanPayload(plan.Account), out)
        m == ToModel(r.account, order)
        stamped == [prior EXCEPT !.LastUpdated = StringValue(FormatRFC850(t))]
    IN  IF r.err # Nil
        THEN [sent |-> r.sent, reply |-> r.reply, State |-> stamped,
              Diagnostics |-> <<NewErrorDiagnostic("Error Updating Zesty Account",
                    <<Lit("Could not update account, unexpected error: ")>> \o r.err.text)>>]
        ELSE IF m.diags # <<>>
        THEN [sent |-> r.sent, reply |-> r.reply, State |-> stamped, Diagnostics |-> m.diags]
        ELSE [sent |-> r.sent, reply |-> r.reply,
              State |-> [ID |-> StringValue(ValueString(m.model.ID)),
                         Account |-> m.model,
                         LastUpdated |-> StringValue(FormatRFC850(t))],
              Diagnostics |-> <<>>]

\* AccountResource.Update with a decoded plan (the response starts with the
\* prior state)
Update(c, prior, plan, out, order, t) ==
    LET r == UpdateAccount(c, PlanPayload(plan.Account), out)
        m == ToModel(r.account, order)
    IN  IF r.err # Nil
        THEN [sent |-> r.sent, reply |-> r.reply, State |-> prior,
              Diagnostics |-> <<NewErrorDiagnostic("Error Updating Zesty Account",
                    <<Lit("Could not update account, unexpected error: ")>> \o r.err.text)>>]
        ELSE IF m.diags # <<>>
        THEN [sent |-> r.sent, reply |-> r.reply, State |-> prior, Diagnostics |-> m.diags]
        ELSE [sent |-> r.sent, reply |-> r.reply,
              State |-> [ID |-> StringValue(ValueString(m.model.ID)),
                         Account |-> m.model,
                         LastUpdated |-> StringValue(FormatRFC850(t))],
              Diagnostics |-> <<>>]

\* AccountResource.Delete with a decoded prior state; the handler leaves the
\* response state alone
Delete(c, prior, out) ==
    LET r == DeleteAccount(c, DeletePayload(prior.Account), out)
    IN  [sent |-> r.sent, reply |-> r.reply, State |-> prior,
         Diagnostics |->
            IF r.err # Nil
            THEN <<NewErrorDiagnostic("Error Deleting account",
                    <<Lit("Could not delete account, unexpected error: ")>> \o r.err.text)>>
            ELSE <<>>]

\* AccountResource.ImportState: the id attribute is set first, the account
\* attribute after the read and the conversion
ImportState(c, id, out, order) ==
    LET withID == [ID |-> StringValue(id), Account |-> Nil, LastUpdated |-> StringNull]
        r == GetAccount(c, id, out)
        m == ToModel(r.account, order)
    IN  IF r.err # Nil
        THEN [sent |-> r.sent, reply |-> r.reply, State |-> withID,
              Diagnostics |-> <<NewErrorDiagnostic("Error importing resource",
                    <<Lit("Could not read resource with ID "), Lit(id), Lit(": ")>> \o r.err.text)>>]
        ELSE IF m.diags # <<>>
        THEN [sent |-> r.sent, reply |-> r.reply, State |-> withID, Diagnostics |-> m.diags]
        ELSE [sent |-> r.sent, reply |-> r.reply,
              State |-> [withID EXCEPT !.Account = m.model],
              Diagnostics |-> <<>>]

-----------------------------------------------------------------------------
(* Spec: one managed account resource against an arbitrary server *)

\* an entry of the plan's product list; values is computed, hence not known
PlanProduct(name, active) ==
    [Name |-> StringValue(name), Active |-> BoolValue(active), Values |-> StringNull]

PlanProductLists ==
    {<<PlanProduct("Kompass", TRUE), PlanProduct("CM", FALSE)>>,
     <<PlanProduct("CM", TRUE), PlanProduct("CM", FALSE)>>}

\* the decoded plans (accountResourceModel) of Create and Update
Plans ==
    {[ID |-> StringNull,
      Account |-> [ID |-> StringValue("123456789012"),
                   CloudProvider |-> StringValue("AWS"),
                   AWSRegion |-> StringNull,
                   RoleARN |-> StringValue("arn:aws"),
                   ExternalID |-> StringValue("ext"),
                   Products |-> ps],
      LastUpdated |-> StringNull] : ps \in PlanProductLists}

KompassAndCM == [n \in {"Kompass", "CM"} |-> [Active |-> n = "Kompass"]]

\* the Account documents the server answers with
ServerDocs ==
    {AccountDoc(JString(id), p, r, JString("ext")) :
        id \in AccountIDs,
        p \in {KompassAndCM, [n \in {"CM"} |-> [Active |-> FALSE]]},
        r \in {Absent, JString("arn:aws:server")}}

ServerOutcomes ==
    {TransportFailure, ReadFailure(200), Response(403, JObject([error |-> JString("forbidden")]))}
        \cup {Response(200, b) : b \in {NotJSON("")} \cup ServerDocs}

\* the client that provider Configure hands to the resource
Init ==
    /\ client = NewClient(Ptr("http://customhost:1234"), "goodtoken").c
    /\ op = "init"
    /\ sent = <<>>
    /\ reply = Nil
    /\ ret = Nil
    /\ state = Nil
    /\ resp = Nil
    /\ input = Nil
    /\ output = Nil

\* a handler has returned with r; persisted is the state the framework keeps
Returned(name, in, r, persisted) ==
    /\ op' = name
    /\ input' = in
    /\ sent' = r.sent
    /\ reply' = r.reply
    /\ resp' = [State |-> r.State, Diagnostics |-> r.Diagnostics]
    /\ state' = persisted
    /\ UNCHANGED <<client, ret, output>>

\* Create is invoked for a resource without state; the framework stores the
\* response state
ResourceCreate ==
    /\ state = Nil
    /\ \E plan \in Plans :
        \/ \E n \in 1..MaxDecodeDiags :
            Returned("Create", [plan |-> plan, decodable |-> FALSE], Undecoded(Nil, n), Nil)
        \/ \E out \in ServerOutcomes, t \in 1..MaxTime : \E order \in IterOrders(out) :
            LET r == Create(client, plan, out, order, t)
            IN  Returned("Create", [plan |-> plan, decodable |-> TRUE], r, r.State)

\* Read is invoked for a resource with state; the framework stores the
\* response state
ResourceRead ==
    /\ state # Nil
    /\ \/ \E n \in 1..MaxDecodeDiags :
            Returned("Read", [id |-> ValueString(state.ID), decodable |-> FALSE],
                     Undecoded(state, n), state)
       \/ \E out \in ServerOutcomes : \E order \in IterOrders(out) :
            LET r == Read(client, state, out, order)
            IN  Returned("Read", [id |-> ValueString(state.ID), decodable |-> TRUE], r, r.State)

\* Update is invoked for a resource with state; the framework stores the
\* response state
ResourceUpdate ==
    /\ state # Nil
    /\ \E plan \in Plans :
        \/ \E n \in 1..MaxDecodeDiags :
            Returned("Update", [plan |-> plan, decodable |-> FALSE], Undecoded(state, n), state)
        \/ \E out \in ServerOutcomes, t \in 1..MaxTime : \E order \in IterOrders(out) :
            LET r == Update(client, state, plan, out, order, t)
            IN  Returned("Update", [plan |-> plan, decodable |-> TRUE], r, r.State)

\* Delete is invoked for a resource with state; the framework removes the
\* state when the handler returns without an error diagnostic
ResourceDelete ==
    /\ state # Nil
    /\ \/ \E n \in 1..MaxDecodeDiags :
            Returned("Delete", [account |-> state.Account, decodable |-> FALSE],
                     Undecoded(state, n), state)
       \/ \E out \in ServerOutcomes :
            LET r == Delete(client, state, out)
            IN  Returned("Delete", [account |-> state.Account, decodable |-> TRUE], r,
                         IF HasError(r.Diagnostics) THEN r.State ELSE Nil)

\* ImportState is invoked for a resource without state; the framework imports
\* the response state only when the handler returns without an error
\* diagnostic
ResourceImport ==
    /\ state = Nil
    /\ \E id \in AccountIDs, out \in ServerOutcomes : \E order \in IterOrders(out) :
        LET r == ImportState(client, id, out, order)
        IN  Returned("Import", [id |-> id], r,
                     IF HasError(r.Diagnostics) THEN Nil ELSE r.State)

Next ==
    \/ ResourceCreate
    \/ ResourceRead
    \/ ResourceUpdate
    \/ ResourceDelete
    \/ ResourceImport

Spec == Init /\ [][Next]_vars

\* the last handler returned without an error diagnostic
Succeeded == resp # Nil /\ ~HasError(resp.Diagnostics)

\* the last handler returned with an error diagnostic
Failed == resp # Nil /\ HasError(resp.Diagnostics)

\* the last operation is a successful Create whose payload had the products
\* {Kompass: active, CM: not active} and whose server answered with an Account
\* of the same products
EchoedCreate ==
    /\ op = "Create"
    /\ input.decodable
    /\ Succeeded
    /\ PlanPayload(input.plan.Account).Products = KompassAndCM
    /\ reply.kind = "response"
    /\ UnmarshalAccount(reply.body).account.Products = KompassAndCM

\* C4, as stated: the persisted model of the echoed Create has two product
\* entries, Kompass (active) before CM (not active).
C4_KompassBeforeCM ==
    EchoedCreate =>
        /\ Len(state.Account.Products) = 2
        /\ state.Account.Products[1].Name = StringValue("Kompass")
        /\ state.Account.Products[1].Active = BoolValue(TRUE)
        /\ state.Account.Products[2].Name = StringValue("CM")
        /\ state.Account.Products[2].Active = BoolValue(FALSE)

\* C4, amended: the persisted model of the echoed Create has two product
\* entries in ascending byte order of the names, CM (not active) before
\* Kompass (active).
C4_CMBeforeKompass ==
    EchoedCreate =>
        /\ Len(state.Account.Products) = 2
        /\ state.Account.Products[1].Name = StringValue("CM")
        /\ state.Account.Products[1].Active = BoolValue(FALSE)
        /\ state.Account.Products[2].Name = StringValue("Kompass")
        /\ state.Account.Products[2].Active = BoolValue(TRUE)

C4_Witness ==
    /\ EchoedCreate
    /\ state # Nil
    /\ input.plan.Account.Products[1].Name = StringValue("Kompass")
    /\ state.Account.Products[1].Name = StringValue("CM")

\* C5: the persisted state becomes present only through a successful Create
\* or Import, stays present across every Read and Update and every failed
\* Delete, and becomes absent only through a successful Delete.
C5_Lifecycle ==
    [][/\ (state = Nil /\ state' # Nil) => (op' \in {"Create", "Import"} /\ Succeeded')
       /\ (state # Nil /\ state' = Nil) => (op' = "Delete" /\ Succeeded')
       /\ (state # Nil /\ op' \in {"Read", "Update"}) => state' # Nil
       /\ (state # Nil /\ op' = "Delete" /\ Failed') => state' # Nil
       /\ (op' \in {"Create", "Import"} /\ Succeeded') => state' # Nil
       /\ (op' = "Delete" /\ Succeeded') => state' = Nil]_vars

C5_Witness ==
    /\ op = "Delete"
    /\ Succeeded
    /\ Len(sent) = 1
    /\ state = Nil

\* the reasons of failure the claim lists: the API call failed (status,
\* transport) or the returned Account did not convert
CrudFailed ==
    /\ op \in {"Create", "Read", "Update", "Delete"}
    /\ input.decodable
    /\ Failed

\* C6: when Create, Read, Update or Delete fails because of the API call or
\* the conversion, the persisted state after the invocation is the state
\* before it and exactly one error diagnostic is reported.
C6_FailureKeepsState ==
    [][CrudFailed' => (state' = state /\ Len(resp'.Diagnostics) = 1)]_vars

C6_Witness ==
    /\ op = "Update"
    /\ CrudFailed
    /\ reply.kind = "response"
    /\ reply.status = 200
    /\ state # Nil
    /\ resp.Diagnostics[1].Summary = "Missing role ARN for account"

\* C7, as stated: when Import returns with an error, no attribute of the
\* response state has been written.
C7_FailedImportWritesNothing ==
    (op = "Import" /\ Failed) => resp.State = Nil

\* C8, as stated: with a decodable plan or prior state, each Create, Read,
\* Update and Delete invocation issues exactly one HTTP request.
C8_ExactlyOneRequest ==
    (op \in {"Create", "Read", "Update", "Delete"} /\ input.decodable) => Len(sent) = 1


\* the last Create, Read or Update decoded its plan or prior state and
\* returned without an error
CruSucceeded ==
    /\ op \in {"Create", "Read", "Update"}
    /\ input.decodable
    /\ Succeeded

\* C21: last_updated is written by a successful Create and a successful
\* Update only: a successful Read replaces the account part of the state and
\* leaves last_updated and the top-level id as they were in the prior state.
C21_LastUpdatedFrame ==
    [][/\ (op' = "Read" /\ CruSucceeded') =>
            /\ state'.LastUpdated = state.LastUpdated
            /\ state'.ID = state.ID
            /\ state'.Account.ID = StringValue(reply'.body.fields["AccountID"].s)
       /\ (op' \in {"Create", "Update"} /\ CruSucceeded') => state'.LastUpdated.known
       /\ (state # Nil /\ state' # Nil /\ state'.LastUpdated # state.LastUpdated) =>
            (op' = "Update" /\ CruSucceeded')
       /\ (state = Nil /\ state' # Nil /\ state'.LastUpdated.known) =>
            (op' = "Create" /\ CruSucceeded')]_vars

C21_Witness ==
    /\ op = "Read"
    /\ CruSucceeded
    /\ state.LastUpdated.known
    /\ state.ID = StringValue("123456789012")
    /\ reply.body.fields["AccountID"].s = "12\n34"
    /\ Len(state.Account.Products) = 1

\* the names of the persisted product entries, in their order
PersistedNames == [i \in DOMAIN state.Account.Products |-> state.Account.Products[i].Name.value]

\* C22: on success the persisted account of Create, Read and Update is the
\* conversion of the Account the server returned, not the plan or the prior
\* state: role ARN, external ID, cloud provider and products are those of the
\* returned Account, and after Create and Update the top-level id is the
\* returned AccountID.
C22_PersistedIsReturned ==
    CruSucceeded =>
        LET f == reply.body.fields
        IN  /\ state.Account.ID = StringValue(f["AccountID"].s)
            /\ state.Account.CloudProvider = StringValue(f["CloudProvider"].s)
            /\ state.Account.RoleARN = StringValue(f["AdditionalData"].fields["roleARN"].s)
            /\ state.Account.ExternalID = StringValue(f["AdditionalData"].fields["externalID"].s)
            /\ Range(PersistedNames) = DOMAIN f["Products"].fields
            /\ Len(PersistedNames) = Cardinality(DOMAIN f["Products"].fields)
            /\ \A i \in DOMAIN PersistedNames :
                    state.Account.Products[i].Active =
                        BoolValue(f["Products"].fields[PersistedNames[i]].fields["active"].b)
            /\ op \in {"Create", "Update"} => state.ID = StringValue(f["AccountID"].s)

C22_Witness ==
    /\ op = "Create"
    /\ CruSucceeded
    /\ state.Account.RoleARN # input.plan.Account.RoleARN
    /\ state.ID = StringValue("12\n34")
    /\ input.plan.Account.ID = StringValue("123456789012")
    /\ Len(input.plan.Account.Products) = 2
    /\ Len(state.Account.Products) = 1

\* the active flag of the last entry named n of a plan's product list
LastFlag(products, n) ==
    LET at == {i \in DOMAIN products : products[i].Name = StringValue(n)}
        last == CHOOSE i \in at : \A j \in at : j <= i
    IN  products[last].Active.value

\* the JSON of the payload that the plan's account describes
PlanDoc(account) ==
    JObject([accountID |-> JString(account.ID.value),
             cloudProvider |-> JString(account.CloudProvider.value),
             roleARN |-> JString(account.RoleARN.value),
             externalID |-> JString(account.ExternalID.value),
             products |->
                JObject([n \in {account.Products[i].Name.value : i \in DOMAIN account.Products} |->
                            JObject([active |-> JBool(LastFlag(account.Products, n))])])])

\* C23: the payload Create and Update send takes account id, cloud provider,
\* role ARN and external ID from the plan and maps every distinct product
\* name of the plan's list to its active flag, the last occurrence winning;
\* the payload Delete sends takes the four scalars from the prior state's
\* account and carries no product entries.
C23_PayloadFromPlan ==
    /\ (op \in {"Create", "Update"} /\ input.decodable) =>
        /\ Len(sent) = 1
        /\ sent[1].Body = PlanDoc(input.plan.Account)
    /\ (op = "Delete" /\ input.decodable) =>
        /\ Len(sent) = 1
        /\ sent[1].Body =
              JObject([accountID |-> JString(input.account.ID.value),
                       cloudProvider |-> JString(input.account.CloudProvider.value),
                       roleARN |-> JString(input.account.RoleARN.value),
                       externalID |-> JString(input.account.ExternalID.value),
                       products |-> JNull])

C23_Witness ==
    /\ op = "Update"
    /\ input.decodable
    /\ Len(input.plan.Account.Products) = 2
    /\ input.plan.Account.Products[1] = PlanProduct("CM", TRUE)
    /\ input.plan.Account.Products[2] = PlanProduct("CM", FALSE)
    /\ sent[1].Body.fields["products"] = JObject([n \in {"CM"} |-> JObject([active |-> JBool(FALSE)])])

\* C25, as stated: after every successful Create, Read, Update or Import the
\* top-level id of the persisted state is the id of the nested account.
C25_TopLevelIdIsAccountId ==
    (op \in {"Create", "Read", "Update", "Import"} /\ Succeeded /\ state # Nil) =>
        state.ID = state.Account.ID

\* C26, as stated: whenever the API call of Create succeeded, Create returned
\* with the resource state persisted.
C26_CreatedIsRecorded ==
    (op = "Create" /\ input.decodable /\ reply # Nil /\ reply.kind = "response"
        /\ reply.status \in {200, 201}) => state # Nil

-----------------------------------------------------------------------------
(* The provider: Configure, and the accounts data source *)

\* models.DefaultHostURL
ModelsDefaultHostURL == "https://api.cloudvisor.io/kompass-platform"

\* a types.String whose value is not known yet
StringUnknown == [known |-> FALSE, unknown |-> TRUE]
IsUnknown(v) == "unknown" \in DOMAIN v
IsNull(v) == ~v.known /\ ~IsUnknown(v)

\* resp.Diagnostics.AddAttributeError(path.Root(attribute), summary, detail)
AttributeErrorDiagnostic(attribute, summary, detail) ==
    [Severity |-> "Error", Summary |-> summary, Detail |-> detail, Path |-> attribute]

ResolveSettingEnvFirst(setting, env) ==
    IF env # "" THEN env ELSE ValueString(setting)

\* host := os.Getenv(...); if !config.Host.IsNull() { host = config.Host.ValueString() }
\* and the same for the token
ResolveSetting(setting, env) ==
    IF ~IsNull(setting) THEN ValueString(setting) ELSE env

TokenMissingNever(token) == FALSE

\* token == ""
TokenMissing(token) == token = ""

\* what Configure leaves in the response when it returns without a client
Unconfigured(diags, constructed, trace, v) ==
    [Diagnostics |-> diags, DataSourceData |-> Nil, ResourceData |-> Nil,
     constructed |-> constructed, trace |-> trace, sent |-> v.sent, reply |-> v.reply]

ConfigureWithoutValidate(config, env, out) ==
    LET c == NewClient(Ptr(ResolveSetting(config.Host, env.ZESTY_HOST)),
                       ResolveSetting(config.Token, env.ZESTY_API_TOKEN)).c
    IN  [Diagnostics |-> <<>>, DataSourceData |-> c, ResourceData |-> c,
         constructed |-> c, trace |-> <<"NewClient", "publish">>, sent |-> <<>>, reply |-> Nil]

\* ZestyProvider.Configure for a configuration that decodes into
\* ZestyProviderModel: the response, the client it constructed (Nil when it
\* returned before), the calls it made in order, and the requests sent.  env
\* holds the two environment variables, out is what the server does with a
\* request.
Configure(config, env, out) ==
    LET unknowns ==
            (IF IsUnknown(config.Host)
             THEN <<AttributeErrorDiagnostic("host", "Unknown Zesty API Host",
                        "The provider cannot create the Zesty API client as there is an unknown configuration value for the Zesty API host.")>>
             ELSE <<>>)
            \o (IF IsUnknown(config.Token)
                THEN <<AttributeErrorDiagnostic("token", "Unknown Zesty API Token",
                        "The provider cannot create the Zesty API client as there is an unknown configuration value for the Zesty API username.")>>
                ELSE <<>>)
        resolved == ResolveSetting(config.Host, env.ZESTY_HOST)
        host == IF resolved = "" THEN ModelsDefaultHostURL ELSE resolved
        token == ResolveSetting(config.Token, env.ZESTY_API_TOKEN)
        nc == NewClient(Ptr(host), token)
        v == Validate(nc.c, out)
    IN
    IF HasError(unknowns) THEN Unconfigured(unknowns, Nil, <<>>, NotSent(Nil))
    ELSE IF TokenMissing(token)
    THEN Unconfigured(<<AttributeErrorDiagnostic("token", "Missing Zesty API Token",
                "The provider cannot create the Zesty API client as there is a missing or empty value for the Zesty API token.")>>,
             Nil, <<>>, NotSent(Nil))
    ELSE IF nc.err # Nil
    THEN Unconfigured(<<NewErrorDiagnostic("Unable to Create Zesty API Client",
                <<Lit("An unexpected error occurred when creating the Zesty API client. Error: ")>>
                    \o nc.err.text)>>,
             Nil, <<"NewClient">>, NotSent(Nil))
    ELSE IF v.err # Nil
    THEN Unconfigured(<<NewErrorDiagnostic("Unable to Validate Zesty API Client",
                <<Lit("An unexpected error occurred when validating the Zesty API. Error: ")>>
                    \o v.err.text)>>,
             nc.c, <<"NewClient", "Validate">>, v)
    ELSE [Diagnostics |-> <<>>, DataSourceData |-> nc.c, ResourceData |-> nc.c,
          constructed |-> nc.c, trace |-> <<"NewClient", "Validate", "publish">>,
          sent |-> v.sent, reply |-> v.reply]

\* the loop over *accounts from index i on: state.Accounts when the loop
\* ends or returns, and the diagnostic of the account it returned at
RECURSIVE AppendAccounts(_, _, _, _)
AppendAccounts(accounts, orders, i, built) ==
    IF i > Len(accounts) THEN [Accounts |-> built, Diagnostics |-> <<>>]
    ELSE IF CheckAccount(accounts[i]) # Nil
    THEN [Accounts |-> built, Diagnostics |-> <<CheckAccount(accounts[i])>>]
    ELSE AppendAccounts(accounts, orders, i + 1,
                        Append(built, AccountState(accounts[i], orders[i])))

DataSourceReadPublishingBuilt(c, out, orders) ==
    LET r == GetAccounts(c, out)
        b == AppendAccounts(r.accounts.list, orders, 1, <<>>)
    IN  IF r.err # Nil
        THEN [sent |-> r.sent, reply |-> r.reply, State |-> Nil,
              Diagnostics |-> <<NewErrorDiagnostic("Unable to Read Zesty Onboarded Accounts",
                                                   r.err.text)>>]
        ELSE [sent |-> r.sent, reply |-> r.reply,
              State |-> [Accounts |-> b.Accounts], Diagnostics |-> b.Diagnostics]

\* AccountsDataSource.Read: the requests sent, and the response's State and
\* Diagnostics when the handler returns (the response starts with a null
\* state); orders[i] is the iteration order of the i-th account's products
DataSourceRead(c, out, orders) ==
    LET r == GetAccounts(c, out)
        b == AppendAccounts(r.accounts.list, orders, 1, <<>>)
    IN  IF r.err # Nil
        THEN [sent |-> r.sent, reply |-> r.reply, State |-> Nil,
              Diagnostics |-> <<NewErrorDiagnostic("Unable to Read Zesty Onboarded Accounts",
                                                   r.err.text)>>]
        ELSE IF b.Diagnostics # <<>>
        THEN [sent |-> r.sent, reply |-> r.reply, State |-> Nil, Diagnostics |-> b.Diagnostics]
        ELSE [sent |-> r.sent, reply |-> r.reply,
              State |-> [Accounts |-> b.Accounts], Diagnostics |-> <<>>]

-----------------------------------------------------------------------------
(* SpecProvider: Configure, then reads of the accounts data source *)

MaxAccounts == 2

\* the provider block's host and token attributes
ConfigHosts == {StringUnknown, StringNull, StringValue(""), StringValue("http://customhost:1234")}
ConfigTokens == {StringUnknown, StringNull, StringValue(""), StringValue("goodtoken")}

\* ZESTY_HOST and ZESTY_API_TOKEN; an unset variable reads as ""
EnvHosts == {"", "http://envhost:80", "127.0.0.1:9000"}
EnvTokens == {"", "envtoken"}

ValidateOutcomes ==
    {TransportFailure, Response(200, NotJSON("")),
     Response(403, JObject([error |-> JString("forbidden")]))}

\* the Account documents GET /accounts answers with
ListedDocs ==
    {AccountDoc(JString("111111111111"), KompassAndCM, JString("arn:aws"), JString("ext")),
     AccountDoc(JString("222222222222"), [n \in {"CM"} |-> [Active |-> FALSE]],
                JString("arn:aws:2"), JString("ext2")),
     AccountDoc(JString("333333333333"), [n \in {"CM"} |-> [Active |-> TRUE]],
                Absent, JString("ext")),
     AccountDoc(JString("444444444444"), [n \in {"CM"} |-> [Active |-> TRUE]],
                JString("arn:aws"), JNumber(7))}

\* the lists of at most MaxAccounts documents
DocLists == UNION {[1..n -> ListedDocs] : n \in 0..MaxAccounts}

ListOutcomes ==
    {TransportFailure, Response(403, JObject([error |-> JString("forbidden")])),
     Response(200, NotJSON("")),
     Response(200, JArray(<<AccountDoc(JNumber(12), KompassAndCM, JString("arn:aws"),
                                       JString("ext"))>>))}
        \cup {Response(200, JArray(l)) : l \in DocLists}

\* the accounts that out decodes to; none when the list call fails
Listed(out) ==
    IF out.kind = "response" /\ ~IsFailureStatus(out.status)
        /\ UnmarshalAccounts(out.body).err = Nil
    THEN UnmarshalAccounts(out.body).accounts
    ELSE <<>>

\* one iteration order of the product map for each listed account
ListOrders(out) ==
    LET accounts == Listed(out)
        all == UNION {Orders(DOMAIN accounts[i].Products) : i \in DOMAIN accounts}
    IN  {o \in [DOMAIN accounts -> all] :
            \A i \in DOMAIN accounts : o[i] \in Orders(DOMAIN accounts[i].Products)}

\* a provider that has not been configured
InitProvider ==
    /\ client = Nil
    /\ op = "init"
    /\ sent = <<>>
    /\ reply = Nil
    /\ ret = Nil
    /\ state = Nil
    /\ resp = Nil
    /\ input = Nil
    /\ output = Nil

\* the framework calls Configure once; client is the client Configure
\* constructed, ret the response it returned
ProviderConfigure ==
    /\ op = "init"
    /\ \E h \in ConfigHosts, t \in ConfigTokens, eh \in EnvHosts, et \in EnvTokens,
          out \in ValidateOutcomes :
        LET config == [Host |-> h, Token |-> t]
            env == [ZESTY_HOST |-> eh, ZESTY_API_TOKEN |-> et]
            r == Configure(config, env, out)
        IN  /\ input' = [config |-> config, env |-> env]
            /\ client' = r.constructed
            /\ sent' = r.sent
            /\ reply' = r.reply
            /\ ret' = [Diagnostics |-> r.Diagnostics, DataSourceData |-> r.DataSourceData,
                       ResourceData |-> r.ResourceData, trace |-> r.trace]
    /\ op' = "Configure"
    /\ UNCHANGED <<state, resp, output>>

\* AccountsDataSource.Configure stores the provider's DataSourceData as
\* d.client; Read then runs with it, and the framework publishes the response
\* state.  Every Read starts from a null response state and nothing of an
\* earlier Read is kept, so one Read per configured provider is followed.
DataSourceAccountsRead ==
    /\ op = "Configure"
    /\ ret.DataSourceData # Nil
    /\ \E out \in ListOutcomes : \E orders \in ListOrders(out) :
        LET r == DataSourceRead(ret.DataSourceData, out, orders)
        IN  /\ sent' = r.sent
            /\ reply' = r.reply
            /\ resp' = [State |-> r.State, Diagnostics |-> r.Diagnostics]
            /\ state' = r.State
            /\ output' = [orders |-> orders]
    /\ op' = "DataSourceRead"
    /\ UNCHANGED <<client, ret, input>>

NextProvider ==
    \/ ProviderConfigure
    \/ DataSourceAccountsRead

SpecProvider == InitProvider /\ [][NextProvider]_vars

\* Configure got as far as resolving host and token: neither attribute is unknown
Resolving ==
    /\ op = "Configure"
    /\ "unknown" \notin DOMAIN input.config.Host
    /\ "unknown" \notin DOMAIN input.config.Token

\* the explicit setting when it is set, otherwise the environment variable
Resolved(setting, env) ==
    IF setting.known THEN setting.value ELSE env

ResolvedToken == Resolved(input.config.Token, input.env.ZESTY_API_TOKEN)

ResolvedHost ==
    IF Resolved(input.config.Host, input.env.ZESTY_HOST) = ""
    THEN "https://api.cloudvisor.io/kompass-platform"
    ELSE Resolved(input.config.Host, input.env.ZESTY_HOST)

\* C15: when the token is empty after resolution, Configure reports an error
\* on the token attribute, sends no HTTP request and does not call Validate,
\* and publishes no client to resources or data sources.
C15_MissingTokenFailsClosed ==
    (Resolving /\ ResolvedToken = "") =>
        /\ \E i \in DOMAIN ret.Diagnostics :
            /\ ret.Diagnostics[i].Severity = "Error"
            /\ "Path" \in DOMAIN ret.Diagnostics[i]
            /\ ret.Diagnostics[i].Path = "token"
            /\ ret.Diagnostics[i].Summary = "Missing Zesty API Token"
        /\ sent = <<>>
        /\ \A i \in DOMAIN ret.trace : ret.trace[i] # "Validate"
        /\ ret.DataSourceData = Nil
        /\ ret.ResourceData = Nil

C15_Witness ==
    /\ op = "Configure"
    /\ input.config.Host = StringValue("http://customhost:1234")
    /\ input.config.Token = StringValue("")
    /\ input.env.ZESTY_API_TOKEN = "envtoken"
    /\ Len(ret.Diagnostics) = 1
    /\ sent = <<>>
    /\ ret.ResourceData = Nil

\* C16: host and token are resolved independently: the explicit setting when
\* it is set (non-null), whatever the environment holds, otherwise the
\* environment variable; a host that resolves to empty is replaced by the
\* default production URL before the client is constructed.
C16_Resolution ==
    (Resolving /\ ResolvedToken # "") =>
        /\ client # Nil
        /\ client.HostURL = ResolvedHost
        /\ client.Token = ResolvedToken

C16_Witness ==
    /\ op = "Configure"
    /\ input.config.Host = StringValue("")
    /\ input.env.ZESTY_HOST = "http://envhost:80"
    /\ input.config.Token = StringNull
    /\ client # Nil
    /\ client.HostURL = "https://api.cloudvisor.io/kompass-platform"
    /\ client.Token = "envtoken"

\* the one request of Configure was answered with 200 or 201
ValidateSucceeded ==
    /\ Len(sent) = 1
    /\ reply.kind = "response"
    /\ reply.status \in {200, 201}

\* the client is handed to resources and data sources
Published == ret.DataSourceData # Nil /\ ret.ResourceData # Nil

\* Configure called NewClient, then Validate once, and published after it if at all
ValidateOnceBeforePublish ==
    /\ Len(ret.trace) \in {2, 3}
    /\ ret.trace[1] = "NewClient"
    /\ ret.trace[2] = "Validate"
    /\ Len(ret.trace) = 3 => ret.trace[3] = "publish"
    /\ Published <=> Len(ret.trace) = 3

\* every request Configure sent is GET /validate on the constructed client's host
OnlyValidateRequests ==
    \A i \in DOMAIN sent :
        /\ sent[i].Method = "GET"
        /\ sent[i].URL = <<client.HostURL, "/validate">>

\* the rest of what C17 says of a Configure that constructed a client
PublishedIffValidated ==
    /\ Published <=> ValidateSucceeded
    /\ Published => ret.DataSourceData = client /\ ret.ResourceData = client
    /\ ~ValidateSucceeded =>
        /\ HasError(ret.Diagnostics)
        /\ ret.DataSourceData = Nil
        /\ ret.ResourceData = Nil

\* C17 as stated: a Configure that constructs the client sends the request
\* GET /validate exactly once, after the construction and before publishing;
\* the client is published iff Validate succeeded, and a failed Validate
\* gives an error diagnostic and no client.
C17_ExactlyOneValidateRequest ==
    (op = "Configure" /\ client # Nil) =>
        /\ Len(sent) = 1
        /\ OnlyValidateRequests
        /\ ValidateOnceBeforePublish
        /\ PublishedIffValidated

\* C17 amended: a Configure that constructs the client calls Validate exactly
\* once, after the construction and before publishing; the call sends one
\* request, GET /validate, unless no request can be built from the host, and
\* then it sends none and fails; the client is published iff Validate
\* succeeded, and a failed Validate gives an error diagnostic and no client.
\* A Configure that constructs no client sends nothing and publishes nothing.
C17_ValidateCalledOnce ==
    /\ (op = "Configure" /\ client # Nil) =>
        /\ Len(sent) <= 1
        /\ Len(sent) = 0 <=> (ColonInFirstSegment(client.HostURL) \/ HasCTLByte(client.HostURL))
        /\ OnlyValidateRequests
        /\ ValidateOnceBeforePublish
        /\ PublishedIffValidated
    /\ (op = "Configure" /\ client = Nil) =>
        /\ sent = <<>>
        /\ ~Published

C17_Witness ==
    /\ op = "Configure"
    /\ client # Nil
    /\ client.HostURL = "127.0.0.1:9000"
    /\ ret.trace = <<"NewClient", "Validate">>
    /\ sent = <<>>
    /\ HasError(ret.Diagnostics)
    /\ ~Published

\* the list call of the last Read succeeded: a 200 or 201 whose body is an
\* array of Account documents
ListSucceeded ==
    /\ reply.kind = "response"
    /\ reply.status \in {200, 201}
    /\ reply.body.j = "array"
    /\ \A i \in DOMAIN reply.body.items : reply.body.items[i].fields["AccountID"].j = "string"

\* the document has the additional-data entry k as a string
DocHasString(doc, k) ==
    /\ k \in DOMAIN doc.fields["AdditionalData"].fields
    /\ doc.fields["AdditionalData"].fields[k].j = "string"

\* every listed account has roleARN and externalID as strings
AllListedPass ==
    \A i \in DOMAIN reply.body.items :
        /\ DocHasString(reply.body.items[i], "roleARN")
        /\ DocHasString(reply.body.items[i], "externalID")

\* C20: the data-source Read is all-or-nothing: when the list call succeeds
\* and every listed account has roleARN and externalID as strings, it
\* publishes exactly one model per listed account, in the order of the
\* response; when the list call fails or an account fails a check, it reports
\* an error and publishes nothing, not even the models built before the
\* failing account.
C20_AllOrNothing ==
    op = "DataSourceRead" =>
        IF ListSucceeded /\ AllListedPass
        THEN /\ resp.Diagnostics = <<>>
             /\ state # Nil
             /\ Len(state.Accounts) = Len(reply.body.items)
             /\ \A i \in DOMAIN state.Accounts :
                    /\ state.Accounts[i].ID =
                            StringValue(reply.body.items[i].fields["AccountID"].s)
                    /\ state.Accounts[i].RoleARN =
                            StringValue(reply.body.items[i].fields["AdditionalData"].fields["roleARN"].s)
        ELSE /\ HasError(resp.Diagnostics)
             /\ state = Nil
             /\ resp.State = Nil

C20_Witness ==
    /\ op = "DataSourceRead"
    /\ ListSucceeded
    /\ Len(reply.body.items) = 2
    /\ DocHasString(reply.body.items[1], "roleARN")
    /\ DocHasString(reply.body.items[1], "externalID")
    /\ ~DocHasString(reply.body.items[2], "externalID")
    /\ state = Nil
    /\ resp.Diagnostics[1].Summary = "Erroneous external ID for account"

\* C27, as stated: the host Configure gives the client when the host resolves
\* to empty is the host NewClient gives a client when no host is given.
C27_SingleDefaultHost ==
    (/\ Resolving
     /\ ResolvedToken # ""
     /\ Resolved(input.config.Host, input.env.ZESTY_HOST) = "") =>
        /\ client # Nil
        /\ client.HostURL = NewClient(Nil, ResolvedToken).c.HostURL

=============================================================================
